---- MODULE Spec2Model ----
(***************************************************************************)
(* The carrier acceptance engine of src/carrier_simulation.py:             *)
(* CarrierSimulation (capacity counters, day reset, accept_load) and       *)
(* process_load_offers, with calculate_acceptance_rate and, from           *)
(* src/simulation.py, the loop of run_simulation.                          *)
(*                                                                         *)
(* The specifications differ only in the loads and draws they offer:       *)
(*   Spec       accept_load over the lanes, seasons and weekends           *)
(*   CapSpec    accept_load on lanes that fill up, with the history of the *)
(*              pairs that reached their limit                             *)
(*   NumSpec    accept_load over weights, costs per mile and draws         *)
(*   TableSpec  accept_load on every lane of the policy table              *)
(*   SeasonSpec accept_load on the seasonal lanes over three years         *)
(*   SureSpec   accept_load where the final probability exceeds 1          *)
(*   BatchSpec  process_load_offers, one iteration of its loop at a time   *)
(*   PairSpec   process_load_offers and calculate_acceptance_rate run side *)
(*              by side on one list, each load with a draw of its own      *)
(*   CallSpec   whole calls of process_load_offers and                     *)
(*              calculate_acceptance_rate, one after another               *)
(*   RunSpec    run_simulation, one weekday's batch at a time              *)
(*                                                                         *)
(* Numbers.  Probabilities are exact decimals with at most five places, so *)
(* they are kept as integers in units of 1/100000: a base probability p is *)
(* 1000*p in base_prob, a factor f is 10*f, their product base*wf*cf is    *)
(* 100000 * final_prob, and a draw of random.random() is an integer d in   *)
(* 0..99999 standing for d/100000.  For every such draw the Python float   *)
(* comparison draw < final_prob agrees with the integer comparison, except *)
(* for a draw equal to the product at 0.001*1.0*1.3 and 0.9*0.7*1.3, where *)
(* the float product rounds up; the draw sets below avoid those two        *)
(* points.  cost / miles is kept as the pair <<cost, miles>> and compared   *)
(* by cross-multiplication.                                                *)
(***************************************************************************)
EXTENDS Integers, Sequences, FiniteSets, Bags, TLC

VARIABLES
    accepted_loads,   \* CarrierSimulation.accepted_loads: date key -> lane key -> count
    last_reset_date,  \* CarrierSimulation.last_reset_date: None or a date
    load,             \* the Load of the latest accept_load call followed as a step
                      \* (None before the first)
    draw,             \* the value random.random() returned in that call
    decision,         \* what that call returned
    pre,              \* the engine's fields at the entry of that call; for a whole
                      \* call, the fields as the call before left them
    reached,          \* history: the (date, lane) pairs that were ever at their limit
    reached_today,    \* history: those that got there since the last change of date
    loads,            \* process_load_offers: the part of `loads` the loop has been through
    accepted,         \* process_load_offers: accepted
    rejected,         \* process_load_offers: rejected
    call,             \* the latest whole call: the function and its arguments
    result,           \* what that call returned
    returned,         \* history: every calculate_acceptance_rate call with its result
    rate_runs,        \* for each lane followed, the loop of calculate_acceptance_rate
                      \* (carrier, draws taken, total, accepted) run on `loads`
    day,              \* run_simulation: how many of `weekdays` the for loop has been through
    all_loads_data    \* run_simulation: all_loads_data, as the bag of its rows (of each
                      \* row the pickup date, the two KMAs and is_accepted)

engine == <<accepted_loads, last_reset_date, load, draw, decision, pre>>

history == <<reached, reached_today>>

batch == <<loads, accepted, rejected>>

calls == <<call, result, returned, rate_runs>>

run == <<day, all_loads_data>>

vars == <<engine, history, batch, calls, run>>

\* Python's None
None == [none |-> TRUE]

(***************************************************************************)
(* datetime.date: the fields and the two methods the engine uses.          *)
(***************************************************************************)
Date(y, m, d) == [year |-> y, month |-> m, day |-> d]

is_leap(y) == y % 4 = 0 /\ (y % 100 # 0 \/ y % 400 = 0)

days_before_year(y) ==
    (y - 1) * 365 + (y - 1) \div 4 - (y - 1) \div 100 + (y - 1) \div 400

days_before_month(y, m) ==
    <<0, 31, 59, 90, 120, 151, 181, 212, 243, 273, 304, 334>>[m]
        + (IF m > 2 /\ is_leap(y) THEN 1 ELSE 0)

toordinal(d) == days_before_year(d.year) + days_before_month(d.year, d.month) + d.day

\* date.weekday(): Monday is 0, Sunday is 6
weekday(d) == (toordinal(d) + 6) % 7

Pad2(n) == IF n < 10 THEN "0" \o ToString(n) ELSE ToString(n)

\* date.isoformat(): YYYY-MM-DD (years of four digits)
isoformat(d) == ToString(d.year) \o "-" \o Pad2(d.month) \o "-" \o Pad2(d.day)

(***************************************************************************)
(* load_simulation.KMA and Load.  origin and destination stand for         *)
(* load.origin.kma and load.destination.kma; the id and the coordinates,   *)
(* which the engine never reads, are left out.                             *)
(***************************************************************************)
KMA == {"CA_STK", "CA_LAX", "AZ_PHO", "TX_DAL", "TX_HOU", "NJ_ELI",
        "IL_CHI", "IN_IND", "MN_MIN", "WI_MIL", "FL_LAK", "GA_ATL"}

Load(o, d, pd, w, c, m) ==
    [origin |-> o, destination |-> d, pickup_date |-> pd,
     weight |-> w, cost |-> c, miles |-> m]

(***************************************************************************)
(* The nested defaultdict(int).  A key that is absent reads as 0, and a    *)
(* read through accepted_loads[date_key][lane_key] creates both keys.      *)
(***************************************************************************)
EmptyCounters == [k \in {} |-> 0]

Count(al, date_key, lane_key) ==
    IF date_key \in DOMAIN al /\ lane_key \in DOMAIN al[date_key]
    THEN al[date_key][lane_key]
    ELSE 0

SetCount(al, date_key, lane_key, n) ==
    LET inner == IF date_key \in DOMAIN al THEN al[date_key] ELSE EmptyCounters
    IN  [k \in DOMAIN al \cup {date_key} |->
            IF k = date_key
            THEN [l \in DOMAIN inner \cup {lane_key} |->
                    IF l = lane_key THEN n ELSE inner[l]]
            ELSE al[k]]

Touch(al, date_key, lane_key) == SetCount(al, date_key, lane_key, Count(al, date_key, lane_key))

(***************************************************************************)
(* CarrierSimulation                                                       *)
(***************************************************************************)
\* __init__
NewCarrier == [accepted_loads |-> EmptyCounters, last_reset_date |-> None]

\* mutant: the counters are cleared on the first call only
reset_counters_on_first_call(self, current_date) ==
    IF self.last_reset_date = None
    THEN [accepted_loads |-> EmptyCounters, last_reset_date |-> current_date]
    ELSE [accepted_loads |-> self.accepted_loads, last_reset_date |-> current_date]

\* mutant: the counters are cleared but the date is not recorded
reset_counters_date_not_recorded(self, current_date) ==
    IF self.last_reset_date # current_date
    THEN [accepted_loads |-> EmptyCounters, last_reset_date |-> self.last_reset_date]
    ELSE self

reset_counters_if_new_day(self, current_date) ==
    IF self.last_reset_date # current_date
    THEN [accepted_loads |-> EmptyCounters, last_reset_date |-> current_date]
    ELSE self

\* mutant: one key for both directions of LAX<->STK
get_lane_key_undirected(origin, destination) ==
    IF {origin, destination} = {"CA_LAX", "CA_STK"}
    THEN "CA_LAX-CA_STK"
    ELSE origin \o "-" \o destination

get_lane_key(origin, destination) == origin \o "-" \o destination

\* mutant: cost / miles whatever miles is
calculate_cost_per_mile_unguarded(l) == <<l.cost, l.miles>>

\* cost / miles as the fraction <<numerator, denominator>>, 0 as <<0, 1>>
calculate_cost_per_mile(l) == IF l.miles > 0 THEN <<l.cost, l.miles>> ELSE <<0, 1>>

\* mutant: <= for <
check_lane_capacity_inclusive(al, origin, destination, pickup_date, max_loads) ==
    Count(al, isoformat(pickup_date), origin \o "-" \o destination) <= max_loads

check_lane_capacity(al, origin, destination, pickup_date, max_loads) ==
    Count(al, isoformat(pickup_date), get_lane_key(origin, destination)) < max_loads

\* mutant: the count of the reverse lane is incremented
increment_reverse_lane_counter(al, origin, destination, pickup_date) ==
    LET lane_key == get_lane_key(destination, origin)
        date_key == isoformat(pickup_date)
    IN  SetCount(al, date_key, lane_key, Count(al, date_key, lane_key) + 1)

increment_lane_counter(al, origin, destination, pickup_date) ==
    LET lane_key == get_lane_key(origin, destination)
        date_key == isoformat(pickup_date)
    IN  SetCount(al, date_key, lane_key, Count(al, date_key, lane_key) + 1)

\* mutant: Saturday taken for a weekday
is_weekend_sunday_only(pickup_date) == weekday(pickup_date) > 5

is_weekend(pickup_date) == weekday(pickup_date) >= 5

\* weekend_prob = 0.05
weekend_prob == 5000

\* mutant: >= for >
weight_factor_inclusive(weight) == IF weight >= 35000 THEN 7 ELSE 10

\* 0.7 if weight > 35000 else 1.0
weight_factor(weight) == IF weight > 35000 THEN 7 ELSE 10

\* mutant: <= for < and >= for >
cpm_factor_inclusive(cpm) ==
    IF cpm[1] <= cpm[2] THEN 7
    ELSE IF 2 * cpm[1] >= 5 * cpm[2] THEN 13
    ELSE 10

\* 0.7 if cost_per_mile < 1.0 else (1.3 if cost_per_mile > 2.5 else 1.0)
cpm_factor(cpm) ==
    IF cpm[1] < cpm[2] THEN 7
    ELSE IF 2 * cpm[1] > 5 * cpm[2] THEN 13
    ELSE 10

\* mutant: February of every year
eli_chi_blackout_every_year(pickup_date) == pickup_date.month = 2

\* the seasonal tests of the ELI-CHI, ATL-CHI and LAK-CHI branches
eli_chi_blackout(pickup_date) == pickup_date.year = 2025 /\ pickup_date.month = 2

\* mutant: May left out of the blackout
atl_chi_blackout_april(pickup_date) == pickup_date.month \in {4}

atl_chi_blackout(pickup_date) == pickup_date.month \in {4, 5}

\* mutant: the lane closed in April too
lak_chi_inactive_april(pickup_date) == pickup_date.month \notin {5}

lak_chi_inactive(pickup_date) == pickup_date.month \notin {4, 5}

\* mutant: the low base probability 0.2 is taken as 0.5
Proceed_never_low(al, p) ==
    [rejected |-> FALSE, base_prob |-> IF p = 200 THEN 500 ELSE p, accepted_loads |-> al]

\* mutant: a lane rule that returns False leaves the counters empty
Reject_clearing(al) == [rejected |-> TRUE, base_prob |-> 0, accepted_loads |-> EmptyCounters]

\* the outcomes of a lane branch: return False, or go on with a base_prob
Reject(al) == [rejected |-> TRUE, base_prob |-> 0, accepted_loads |-> al]

Proceed(al, p) == [rejected |-> FALSE, base_prob |-> p, accepted_loads |-> al]

\* mutant: the capacity check always passes
capacity_branch_unchecked(al, origin, destination, pickup_date, max_loads, p) ==
    Proceed(Touch(al, isoformat(pickup_date), origin \o "-" \o destination), p)

\* if self._check_lane_capacity(...): base_prob = p  else: return False
capacity_branch(al, origin, destination, pickup_date, max_loads, p) ==
    LET touched == Touch(al, isoformat(pickup_date), get_lane_key(origin, destination))
    IN  IF check_lane_capacity(al, origin, destination, pickup_date, max_loads)
        THEN Proceed(touched, p)
        ELSE Reject(touched)

\* the if / elif chain "Apply specific lane rules"; base_prob starts at 0.001
lane_rules(al, o, d, pickup_date) ==
    IF (o = "CA_LAX" /\ d = "CA_STK") \/ (o = "CA_STK" /\ d = "CA_LAX")
    THEN capacity_branch(al, o, d, pickup_date, 10, 850)
    ELSE IF o = "TX_DAL" /\ d = "TX_HOU"
    THEN capacity_branch(al, o, d, pickup_date, 5, 900)
    ELSE IF o = "TX_HOU" /\ d = "TX_DAL"
    THEN capacity_branch(al, o, d, pickup_date, 1, 200)
    ELSE IF (o = "NJ_ELI" /\ d = "IL_CHI") \/ (o = "IL_CHI" /\ d = "NJ_ELI")
    THEN IF eli_chi_blackout(pickup_date)
         THEN Reject(al)
         ELSE capacity_branch(al, o, d, pickup_date, 1, 500)
    ELSE IF (o = "GA_ATL" /\ d = "IL_CHI") \/ (d = "GA_ATL" /\ o = "IL_CHI")
    THEN IF atl_chi_blackout(pickup_date)
         THEN Reject(al)
         ELSE capacity_branch(al, o, d, pickup_date, 10, 800)
    ELSE IF (o = "FL_LAK" /\ d = "IL_CHI") \/ (d = "FL_LAK" /\ o = "IL_CHI")
    THEN IF lak_chi_inactive(pickup_date)
         THEN Reject(al)
         ELSE capacity_branch(al, o, d, pickup_date, 10, 850)
    ELSE Proceed(al, 1)

\* what a call of accept_load gives: the value returned and the fields of self
Outcome(d, al, lrd) == [decision |-> d, accepted_loads |-> al, last_reset_date |-> lrd]

\* mutant: a weekend acceptance is counted like a weekday one
weekend_return_counted(reset, l, r) ==
    Outcome(r < weekend_prob,
            IF r < weekend_prob
            THEN increment_lane_counter(reset.accepted_loads, l.origin,
                                        l.destination, l.pickup_date)
            ELSE reset.accepted_loads,
            reset.last_reset_date)

\* if self._is_weekend(pickup_date): return random.random() < weekend_prob
weekend_return(reset, l, r) ==
    Outcome(r < weekend_prob, reset.accepted_loads, reset.last_reset_date)

\* mutant: a final_prob above 1 is not taken for a probability: no acceptance
make_decision_refusing_above_one(rule, reset, l, r) ==
    LET final_prob == rule.base_prob * weight_factor(l.weight)
                          * cpm_factor(calculate_cost_per_mile(l))
        decided == final_prob <= 100000 /\ r < final_prob
    IN  Outcome(decided,
                IF decided
                THEN increment_lane_counter(rule.accepted_loads, l.origin,
                                            l.destination, l.pickup_date)
                ELSE rule.accepted_loads,
                reset.last_reset_date)

\* final_prob, the decision, and the increment if accepted
make_decision(rule, reset, l, r) ==
    LET final_prob == rule.base_prob * weight_factor(l.weight)
                          * cpm_factor(calculate_cost_per_mile(l))
        decided == r < final_prob
    IN  Outcome(decided,
                IF decided
                THEN increment_lane_counter(rule.accepted_loads, l.origin,
                                            l.destination, l.pickup_date)
                ELSE rule.accepted_loads,
                reset.last_reset_date)

\* mutant: the weekend check comes before the reset step
accept_load_weekend_first(self, l, r) ==
    LET reset == reset_counters_if_new_day(self, l.pickup_date)
        rule == lane_rules(reset.accepted_loads, l.origin, l.destination, l.pickup_date)
    IN  IF is_weekend(l.pickup_date)
        THEN weekend_return(self, l, r)
        ELSE IF rule.rejected
        THEN Outcome(FALSE, rule.accepted_loads, reset.last_reset_date)
        ELSE make_decision(rule, reset, l, r)

\* accept_load(self, load) in which random.random() returns r
accept_load(self, l, r) ==
    LET reset == reset_counters_if_new_day(self, l.pickup_date)
        rule == lane_rules(reset.accepted_loads, l.origin, l.destination, l.pickup_date)
    IN  IF is_weekend(l.pickup_date)
        THEN weekend_return(reset, l, r)
        ELSE IF rule.rejected
        THEN Outcome(FALSE, rule.accepted_loads, reset.last_reset_date)
        ELSE make_decision(rule, reset, l, r)

(***************************************************************************)
(* Inputs.  The pickup dates, by what the rules test on them.              *)
(***************************************************************************)
Mon2025Jan == Date(2025, 1, 6)
Mon2025Feb == Date(2025, 2, 3)
Sat2025Feb == Date(2025, 2, 8)
Tue2025Mar == Date(2025, 3, 4)
Sun2025Apr == Date(2025, 4, 6)
Mon2025Apr == Date(2025, 4, 7)
Mon2025Jun == Date(2025, 6, 2)
Mon2024Feb == Date(2024, 2, 5)
Mon2024May == Date(2024, 5, 6)

Dates == {Mon2025Jan, Mon2025Feb, Sat2025Feb, Tue2025Mar, Sun2025Apr,
          Mon2025Apr, Mon2025Jun, Mon2024Feb, Mon2024May}

\* a load of 20000 lb at 2000 for 1000 miles (2.0 per mile): both factors 1.0
Plain(o, d, pd) == Load(o, d, pd, 20000, 2000, 1000)

\* a load of 40000 lb at 500 for 0 miles: both factors 0.7
Heavy(o, d, pd) == Load(o, d, pd, 40000, 500, 0)

\* Spec: every lane rule in and out of its season, on weekdays and weekends
Loads ==
    { Plain("TX_DAL", "TX_HOU", Mon2025Feb), Plain("TX_HOU", "TX_DAL", Mon2025Feb),
      Plain("AZ_PHO", "TX_DAL", Mon2025Feb), Plain("NJ_ELI", "IL_CHI", Mon2025Feb),
      Plain("IL_CHI", "NJ_ELI", Mon2024Feb), Plain("FL_LAK", "IL_CHI", Mon2025Feb),
      Plain("GA_ATL", "IL_CHI", Mon2025Apr), Plain("IL_CHI", "GA_ATL", Mon2024May),
      Plain("FL_LAK", "IL_CHI", Mon2025Apr), Plain("IL_CHI", "FL_LAK", Mon2025Jun),
      Plain("CA_LAX", "CA_STK", Sat2025Feb), Heavy("TX_DAL", "TX_HOU", Sat2025Feb),
      Plain("NJ_ELI", "IL_CHI", Sat2025Feb), Plain("FL_LAK", "IL_CHI", Sat2025Feb),
      Heavy("AZ_PHO", "TX_DAL", Sun2025Apr), Plain("GA_ATL", "IL_CHI", Sun2025Apr) }

\* draws of random.random(), in units of 1/100000
Draws == {0, 4999, 5000, 50000, 99999}

\* CapSpec: both directions of a lane of limit 10, a lane of limit 1 on two
\* dates, and a weekend load
CapLoads ==
    { Plain("CA_LAX", "CA_STK", Tue2025Mar), Plain("CA_STK", "CA_LAX", Tue2025Mar),
      Plain("TX_HOU", "TX_DAL", Mon2025Feb), Plain("TX_HOU", "TX_DAL", Mon2024Feb),
      Plain("CA_LAX", "CA_STK", Sat2025Feb) }

CapDraws == {0, 99999}

\* NumSpec: the weights and costs per mile around the factors' thresholds, on
\* a lane with a policy and on one without
NumWeights == {20000, 35000, 40000}

\* <<cost, miles>>: 2.0, 0.99, 2.51, 1.0 and 2.5 per mile, and miles <= 0
NumCostMiles ==
    {<<2000, 1000>>, <<990, 1000>>, <<2510, 1000>>, <<1000, 1000>>, <<2500, 1000>>,
     <<5000, 0>>, <<-3000, -1000>>}

NumLoads ==
    { Load("TX_DAL", "TX_HOU", Mon2025Feb, w, cm[1], cm[2]) :
        w \in NumWeights, cm \in NumCostMiles }
    \cup
    { Load("AZ_PHO", "TX_DAL", Tue2025Mar, w, cm[1], cm[2]) :
        w \in NumWeights, cm \in {<<2000, 1000>>, <<990, 1000>>, <<2510, 1000>>} }

NumDraws == {0, 48, 49, 99, 100, 62999, 63000, 89999, 90000, 99999}

\* TableSpec: a weekday load in season on every lane that has a branch, and on
\* three lanes that have none, each lane on a date of its own
TableLoads ==
    { Plain("CA_LAX", "CA_STK", Date(2025, 3, 3)), Plain("CA_STK", "CA_LAX", Date(2025, 3, 4)),
      Plain("TX_DAL", "TX_HOU", Date(2025, 3, 5)), Plain("TX_HOU", "TX_DAL", Date(2025, 3, 6)),
      Plain("NJ_ELI", "IL_CHI", Date(2025, 3, 7)), Plain("IL_CHI", "NJ_ELI", Date(2025, 3, 10)),
      Plain("GA_ATL", "IL_CHI", Date(2025, 3, 11)), Plain("IL_CHI", "GA_ATL", Date(2025, 3, 12)),
      Plain("FL_LAK", "IL_CHI", Date(2025, 4, 7)), Plain("IL_CHI", "FL_LAK", Date(2025, 4, 8)),
      Plain("AZ_PHO", "TX_DAL", Date(2025, 3, 13)), Plain("IL_CHI", "IN_IND", Date(2025, 3, 14)),
      Plain("GA_ATL", "FL_LAK", Date(2025, 3, 17)) }

\* the draws around every base probability
TableDraws ==
    {0, 99, 100, 19999, 20000, 49999, 50000, 79999, 80000, 84999, 85000,
     89999, 90000, 99999}

\* SeasonSpec: the three seasonal lanes on Mondays of 2024, 2025 and 2026, in
\* and out of their months
Mon2026Feb == Date(2026, 2, 2)

Mon2026Apr == Date(2026, 4, 6)

SeasonLoads ==
    { Plain("NJ_ELI", "IL_CHI", Mon2025Feb), Plain("IL_CHI", "NJ_ELI", Mon2024Feb),
      Plain("NJ_ELI", "IL_CHI", Mon2026Feb), Plain("IL_CHI", "NJ_ELI", Mon2025Jan),
      Plain("GA_ATL", "IL_CHI", Mon2025Apr), Plain("IL_CHI", "GA_ATL", Mon2024May),
      Plain("GA_ATL", "IL_CHI", Mon2026Apr), Plain("IL_CHI", "GA_ATL", Mon2025Jun),
      Plain("GA_ATL", "IL_CHI", Mon2024Feb),
      Plain("FL_LAK", "IL_CHI", Mon2025Apr), Plain("IL_CHI", "FL_LAK", Mon2024May),
      Plain("FL_LAK", "IL_CHI", Mon2026Apr), Plain("FL_LAK", "IL_CHI", Mon2025Feb),
      Plain("IL_CHI", "FL_LAK", Mon2024Feb) }

SeasonDraws == {0, 49999, 50000, 79999, 80000, 84999, 85000, 99999}

\* SureSpec: loads at 2.51 per mile, of 20000 and 35000 lb on the lanes whose
\* base probability is 0.8 or more, each lane in season on a weekday of its
\* own, and next to them a load of 40000 lb and one on HOU->DAL (0.2)
Costly(o, d, pd, w) == Load(o, d, pd, w, 2510, 1000)

SureLoads ==
    { Costly(lane[1], lane[2], lane[3], w) :
        lane \in { <<"CA_LAX", "CA_STK", Date(2025, 3, 3)>>, <<"CA_STK", "CA_LAX", Date(2025, 3, 4)>>,
                   <<"TX_DAL", "TX_HOU", Date(2025, 3, 5)>>, <<"GA_ATL", "IL_CHI", Date(2025, 3, 11)>>,
                   <<"IL_CHI", "GA_ATL", Date(2025, 3, 12)>>, <<"FL_LAK", "IL_CHI", Date(2025, 4, 7)>>,
                   <<"IL_CHI", "FL_LAK", Date(2025, 4, 8)>> },
        w \in {20000, 35000} }
    \cup
    { Costly("TX_DAL", "TX_HOU", Date(2025, 3, 5), 40000),
      Costly("TX_HOU", "TX_DAL", Date(2025, 3, 6), 20000) }

SureDraws == {0, 26000, 50000, 99999}

\* BatchSpec: one weekday load on every lane that has a limit, and a weekend
\* load; a batch is a load repeated, or one load repeated and then another
BatchLoads ==
    { Plain("CA_LAX", "CA_STK", Tue2025Mar), Plain("CA_STK", "CA_LAX", Tue2025Mar),
      Plain("TX_DAL", "TX_HOU", Mon2025Feb), Plain("TX_HOU", "TX_DAL", Mon2025Feb),
      Plain("NJ_ELI", "IL_CHI", Mon2024Feb), Plain("IL_CHI", "NJ_ELI", Mon2024Feb),
      Plain("GA_ATL", "IL_CHI", Mon2025Jan), Plain("IL_CHI", "GA_ATL", Mon2025Jun),
      Plain("FL_LAK", "IL_CHI", Mon2025Apr), Plain("IL_CHI", "FL_LAK", Mon2024May),
      Plain("CA_LAX", "CA_STK", Sat2025Feb) }

BatchDraws == {0, 99999}

\* the longest batch
MaxBatch == 11

\* PairSpec: process_load_offers and calculate_acceptance_rate run on one list,
\* each load with one draw for both.  HOU->DAL (limit 1) and DAL->HOU on a
\* Monday, another lane on a later Tuesday, HOU->DAL on a Saturday
PairLoads ==
    { Plain("TX_HOU", "TX_DAL", Mon2025Feb), Plain("TX_DAL", "TX_HOU", Mon2025Feb),
      Plain("AZ_PHO", "TX_DAL", Tue2025Mar), Plain("TX_HOU", "TX_DAL", Sat2025Feb) }

PairDraws == {0, 99999}

\* the lanes calculate_acceptance_rate is called for
PairLanes == {<<"TX_HOU", "TX_DAL">>, <<"TX_DAL", "TX_HOU">>}

\* the longest list
MaxPair == 5

\* the count up to which the model follows a lane that has no capacity limit
MaxUnlimited == 11

\* the lanes the if / elif chain has a branch for, and their max_loads
HasLimit(o, d) ==
    \/ {o, d} \in {{"CA_LAX", "CA_STK"}, {"NJ_ELI", "IL_CHI"},
                   {"GA_ATL", "IL_CHI"}, {"FL_LAK", "IL_CHI"}}
    \/ <<o, d>> \in {<<"TX_DAL", "TX_HOU">>, <<"TX_HOU", "TX_DAL">>}

MaxLoads(o, d) ==
    IF {o, d} \in {{"CA_LAX", "CA_STK"}, {"GA_ATL", "IL_CHI"}, {"FL_LAK", "IL_CHI"}} THEN 10
    ELSE IF <<o, d>> = <<"TX_DAL", "TX_HOU">> THEN 5
    ELSE 1

(***************************************************************************)
(* The state machine: one CarrierSimulation and the calls made on it.      *)
(***************************************************************************)
Self == [accepted_loads |-> accepted_loads, last_reset_date |-> last_reset_date]

DateKey(l) == isoformat(l.pickup_date)

LaneKey(l) == get_lane_key(l.origin, l.destination)

Init ==
    /\ accepted_loads = NewCarrier.accepted_loads
    /\ last_reset_date = NewCarrier.last_reset_date
    /\ load = None
    /\ draw = None
    /\ decision = None
    /\ pre = None
    /\ reached = {}
    /\ reached_today = {}
    /\ loads = <<>>
    /\ accepted = <<>>
    /\ rejected = <<>>
    /\ call = None
    /\ result = None
    /\ returned = {}
    /\ rate_runs = [lane \in PairLanes |->
                      [carrier |-> NewCarrier, k |-> 0, total |-> 0, accepted |-> 0]]
    /\ day = 0
    /\ all_loads_data = EmptyBag

\* one call carrier.accept_load(l) in which random.random() returns r
AcceptLoad(l, r) ==
    \E out \in {accept_load(Self, l, r)} :
        /\ IF HasLimit(l.origin, l.destination) THEN TRUE
           ELSE Count(accepted_loads, DateKey(l), LaneKey(l)) < MaxUnlimited
        /\ accepted_loads' = out.accepted_loads
        /\ last_reset_date' = out.last_reset_date
        /\ load' = l
        /\ draw' = r
        /\ decision' = out.decision
        /\ pre' = Self

Next == \E l \in Loads, r \in Draws : AcceptLoad(l, r) /\ UNCHANGED <<history, batch, calls, run>>

Spec == Init /\ [][Next]_vars

\* the offers among ls whose (date, lane) count stands at the lane's limit
AtLimit(al, ls) ==
    { <<DateKey(l), LaneKey(l)>> : l \in
        { x \in ls : /\ HasLimit(x.origin, x.destination)
                     /\ Count(al, DateKey(x), LaneKey(x)) >= MaxLoads(x.origin, x.destination) } }

CapNext ==
    \E l \in CapLoads, r \in CapDraws :
        /\ AcceptLoad(l, r)
        /\ reached' = reached \cup AtLimit(accepted_loads', CapLoads)
        /\ reached_today' =
              (IF l.pickup_date = last_reset_date THEN reached_today ELSE {})
                  \cup AtLimit(accepted_loads', CapLoads)
        /\ UNCHANGED <<batch, calls, run>>

CapSpec == Init /\ [][CapNext]_vars

NumNext == \E l \in NumLoads, r \in NumDraws : AcceptLoad(l, r) /\ UNCHANGED <<history, batch, calls, run>>

NumSpec == Init /\ [][NumNext]_vars

TableNext ==
    \E l \in TableLoads, r \in TableDraws :
        AcceptLoad(l, r) /\ UNCHANGED <<history, batch, calls, run>>

TableSpec == Init /\ [][TableNext]_vars

SeasonNext ==
    \E l \in SeasonLoads, r \in SeasonDraws :
        AcceptLoad(l, r) /\ UNCHANGED <<history, batch, calls, run>>

SeasonSpec == Init /\ [][SeasonNext]_vars

SureNext ==
    \E l \in SureLoads, r \in SureDraws :
        AcceptLoad(l, r) /\ UNCHANGED <<history, batch, calls, run>>

SureSpec == Init /\ [][SureNext]_vars

\* the number of runs of equal consecutive elements of s
Runs(s) == IF s = <<>> THEN 0 ELSE 1 + Cardinality({i \in 2..Len(s) : s[i] # s[i - 1]})

\* process_load_offers(loads): Init is its state on entry to the loop (a new
\* CarrierSimulation, accepted = [], rejected = []); this is one iteration,
\* on the next load l of the list, in which random.random() returns r.  The
\* function may return after any iteration, so every state holds a result.
\* The batches followed are those of at most two runs of equal loads.
ProcessLoadOffers(l, r) ==
    /\ Len(loads) < MaxBatch
    /\ Runs(Append(loads, l)) <= 2
    /\ AcceptLoad(l, r)
    /\ loads' = Append(loads, l)
    /\ accepted' = IF decision' THEN Append(accepted, l) ELSE accepted
    /\ rejected' = IF decision' THEN rejected ELSE Append(rejected, l)
    /\ UNCHANGED <<history, calls, run>>

BatchNext == \E l \in BatchLoads, r \in BatchDraws : ProcessLoadOffers(l, r)

BatchSpec == Init /\ [][BatchNext]_vars

(***************************************************************************)
(* Whole calls of process_load_offers and calculate_acceptance_rate.  The  *)
(* random source is a sequence rs of draws: the k-th call of               *)
(* random.random() returns rs[k].  accept_load calls it on the weekend     *)
(* path and where no lane rule has returned False.                         *)
(***************************************************************************)
\* whether accept_load(self, l) gets to a call of random.random()
calls_random(self, l) ==
    IF is_weekend(l.pickup_date) THEN TRUE
    ELSE ~lane_rules(reset_counters_if_new_day(self, l.pickup_date).accepted_loads,
                     l.origin, l.destination, l.pickup_date).rejected

\* the fields of self after a call of accept_load
Carrier(out) ==
    [accepted_loads |-> out.accepted_loads, last_reset_date |-> out.last_reset_date]

\* mutant: an accepted load is put at the head of accepted
partition_prepending(acc, rej, l, d) ==
    [accepted |-> IF d THEN <<l>> \o acc ELSE acc,
     rejected |-> IF d THEN rej ELSE Append(rej, l)]

\* if carrier.accept_load(load): accepted.append(load)  else: rejected.append(load)
partition(acc, rej, l, d) ==
    [accepted |-> IF d THEN Append(acc, l) ELSE acc,
     rejected |-> IF d THEN rej ELSE Append(rej, l)]

\* the state of the loop after load l, whose accept_load call gave out and
\* took `taken` draws
offer_done(st, l, out, taken) ==
    [carrier |-> Carrier(out), k |-> st.k + taken] @@
        partition(st.accepted, st.rejected, l, out.decision)

\* one iteration of the loop of process_load_offers, on load l
offer_body(st, l, rs) ==
    IF calls_random(st.carrier, l)
    THEN offer_done(st, l, accept_load(st.carrier, l, rs[st.k + 1]), 1)
    ELSE offer_done(st, l, accept_load(st.carrier, l, 0), 0)

RECURSIVE offers_loop(_, _, _, _)
\* for load in loads, from the i-th load on
offers_loop(st, ls, rs, i) ==
    IF i > Len(ls) THEN st
    ELSE offers_loop(offer_body(st, ls[i], rs), ls, rs, i + 1)

\* mutant: the engine of the call before is taken again
carrier_of_last_call == Self

\* carrier = CarrierSimulation()
new_carrier == NewCarrier

\* process_load_offers(loads) on the random source rs
process_load_offers(ls, rs) ==
    offers_loop([carrier |-> new_carrier, k |-> 0, accepted |-> <<>>, rejected |-> <<>>],
                ls, rs, 1)

\* mutant: the lane is matched in either direction
matches_lane_undirected(l, origin_kma, destination_kma) ==
    {l.origin, l.destination} = {origin_kma, destination_kma}

\* load.origin.kma == origin_kma and load.destination.kma == destination_kma
matches_lane(l, origin_kma, destination_kma) ==
    l.origin = origin_kma /\ l.destination = destination_kma

\* the state of the loop after a load of the lane
rate_done(st, out, taken) ==
    [carrier |-> Carrier(out), k |-> st.k + taken, total |-> st.total + 1,
     accepted |-> IF out.decision THEN st.accepted + 1 ELSE st.accepted]

\* mutant: the engine is given every load, and the loads of the lane are counted
rate_body_unfiltered(st, l, rs, origin_kma, destination_kma) ==
    LET taken == IF calls_random(st.carrier, l) THEN 1 ELSE 0
        out == accept_load(st.carrier, l, IF taken = 1 THEN rs[st.k + 1] ELSE 0)
    IN  IF matches_lane(l, origin_kma, destination_kma)
        THEN rate_done(st, out, taken)
        ELSE [carrier |-> Carrier(out), k |-> st.k + taken, total |-> st.total,
              accepted |-> st.accepted]

\* one iteration of the loop of calculate_acceptance_rate, on load l
rate_body(st, l, rs, origin_kma, destination_kma) ==
    IF ~matches_lane(l, origin_kma, destination_kma) THEN st
    ELSE IF calls_random(st.carrier, l)
    THEN rate_done(st, accept_load(st.carrier, l, rs[st.k + 1]), 1)
    ELSE rate_done(st, accept_load(st.carrier, l, 0), 0)

RECURSIVE rate_loop(_, _, _, _, _, _)
\* for load in loads, from the i-th load on
rate_loop(st, ls, rs, origin_kma, destination_kma, i) ==
    IF i > Len(ls) THEN st
    ELSE rate_loop(rate_body(st, ls[i], rs, origin_kma, destination_kma),
                   ls, rs, origin_kma, destination_kma, i + 1)

\* rate = accepted / total if total > 0 else 0.0, as the fraction
\* <<numerator, denominator>>, 0.0 as <<0, 1>>
rate(acc, total) == IF total > 0 THEN <<acc, total>> ELSE <<0, 1>>

\* calculate_acceptance_rate(origin_kma, destination_kma, loads) on the random
\* source rs: what it returns, and its engine as it leaves it
calculate_acceptance_rate(origin_kma, destination_kma, ls, rs) ==
    LET st == rate_loop([carrier |-> new_carrier, k |-> 0, total |-> 0, accepted |-> 0],
                        ls, rs, origin_kma, destination_kma, 1)
    IN  [accepted |-> st.accepted, total |-> st.total,
         rate |-> rate(st.accepted, st.total), carrier |-> st.carrier]

\* a random source whose next draw, the one after k, is r
Drawing(k, r) == [j \in 1..(k + 1) |-> r]

\* the next load l of the list, with the draw r, goes through an iteration of
\* the loop of process_load_offers and, for each lane, of the loop of
\* calculate_acceptance_rate; Init is the state of both on entry to the loop
PairStep(l, r) ==
    /\ Len(loads) < MaxPair
    /\ AcceptLoad(l, r)
    /\ loads' = Append(loads, l)
    /\ accepted' = IF decision' THEN Append(accepted, l) ELSE accepted
    /\ rejected' = IF decision' THEN rejected ELSE Append(rejected, l)
    /\ rate_runs' = [lane \in PairLanes |->
                        rate_body(rate_runs[lane], l, Drawing(rate_runs[lane].k, r),
                                  lane[1], lane[2])]
    /\ UNCHANGED <<history, call, result, returned, run>>

PairNext == \E l \in PairLoads, r \in PairDraws : PairStep(l, r)

PairSpec == Init /\ [][PairNext]_vars

\* CallSpec: the lists of loads, each load with its id
Identified(s) ==
    [i \in 1..Len(s) |->
        [id |-> ToString(i), origin |-> s[i].origin, destination |-> s[i].destination,
         pickup_date |-> s[i].pickup_date, weight |-> s[i].weight,
         cost |-> s[i].cost, miles |-> s[i].miles]]

\* HOU->DAL (limit 1) and DAL->HOU on one Monday, a Saturday in between
MixedList ==
    Identified(<< Plain("TX_HOU", "TX_DAL", Mon2025Feb), Plain("TX_DAL", "TX_HOU", Mon2025Feb),
                  Plain("TX_HOU", "TX_DAL", Mon2025Feb), Plain("TX_HOU", "TX_DAL", Sat2025Feb),
                  Plain("TX_HOU", "TX_DAL", Mon2025Feb) >>)

\* no load between Dallas and Houston
OtherList ==
    Identified(<< Plain("AZ_PHO", "TX_DAL", Tue2025Mar), Plain("CA_LAX", "CA_STK", Tue2025Mar),
                  Plain("AZ_PHO", "TX_DAL", Tue2025Mar) >>)

CallLists == {<<>>, MixedList, OtherList}

CallLanes == {<<"TX_HOU", "TX_DAL">>, <<"TX_DAL", "TX_HOU">>}

\* random sources: every draw 0, and draws 0 and 0.99999 in turn
CallDraws == {<<0, 0, 0, 0, 0>>, <<0, 99999, 0, 99999, 0>>}

\* a call process_load_offers(ls) on the random source rs.  accepted_loads and
\* last_reset_date are left as the call's engine had them when it returned,
\* and pre holds them as the call before had left them.
CallProcessLoadOffers(ls, rs) ==
    \E out \in {process_load_offers(ls, rs)} :
        /\ call' = [fn |-> "process_load_offers", loads |-> ls, draws |-> rs]
        /\ result' = [accepted |-> out.accepted, rejected |-> out.rejected]
        /\ accepted_loads' = out.carrier.accepted_loads
        /\ last_reset_date' = out.carrier.last_reset_date
        /\ pre' = Self
        /\ UNCHANGED <<load, draw, decision, history, batch, returned, rate_runs, run>>

\* a call calculate_acceptance_rate(origin_kma, destination_kma, ls) on the
\* random source rs
CallCalculateAcceptanceRate(origin_kma, destination_kma, ls, rs) ==
    \E out \in {calculate_acceptance_rate(origin_kma, destination_kma, ls, rs)} :
        /\ call' = [fn |-> "calculate_acceptance_rate", origin_kma |-> origin_kma,
                    destination_kma |-> destination_kma, loads |-> ls, draws |-> rs]
        /\ result' = [accepted |-> out.accepted, total |-> out.total, rate |-> out.rate]
        /\ returned' = returned \cup {<<call', result'>>}
        /\ accepted_loads' = out.carrier.accepted_loads
        /\ last_reset_date' = out.carrier.last_reset_date
        /\ pre' = Self
        /\ UNCHANGED <<load, draw, decision, history, batch, rate_runs, run>>

CallNext ==
    \/ \E ls \in CallLists, rs \in CallDraws : CallProcessLoadOffers(ls, rs)
    \/ \E lane \in CallLanes, ls \in CallLists, rs \in CallDraws :
           CallCalculateAcceptanceRate(lane[1], lane[2], ls, rs)

CallSpec == Init /\ [][CallNext]_vars

(***************************************************************************)
(* run_simulation (src/simulation.py): the weekdays from start_date to     *)
(* end_date, and for each of them a batch of generated loads given to      *)
(* process_load_offers and stored, row by row, in all_loads_data.          *)
(***************************************************************************)
start_date == Date(2025, 2, 1)

end_date == Date(2025, 5, 31)

days_in_month(y, m) ==
    IF m = 2 THEN (IF is_leap(y) THEN 29 ELSE 28)
    ELSE IF m \in {4, 6, 9, 11} THEN 30
    ELSE 31

\* date.fromordinal, on the years from start_date to end_date
fromordinal(n) ==
    CHOOSE d \in { Date(y, m, dd) : y \in start_date.year..end_date.year,
                                    m \in 1..12, dd \in 1..31 } :
        d.day <= days_in_month(d.year, d.month) /\ toordinal(d) = n

\* mutant: Saturday is taken for a weekday
is_weekday_or_saturday(current_date) == weekday(current_date) < 6

\* current_date.weekday() < 5
is_weekday(current_date) == weekday(current_date) < 5

\* the dates current_date goes through in "while current_date <= end_date",
\* a day at a time (current_date += timedelta(days=1))
current_dates ==
    [i \in 1..(toordinal(end_date) - toordinal(start_date) + 1) |->
        fromordinal(toordinal(start_date) + i - 1)]

\* weekdays, when the while loop has ended: of those dates, in order, the ones
\* appended
weekdays == SelectSeq(current_dates, is_weekday)

\* the lanes of the generated loads that are followed: HOU->DAL (limit 1),
\* DAL->HOU (limit 5) and a lane without a policy
RunLanes == {<<"TX_HOU", "TX_DAL">>, <<"TX_DAL", "TX_HOU">>, <<"AZ_PHO", "TX_DAL">>}

\* generate_random_load(pickup_date): of the loads it can return, those of the
\* lanes followed, of 30000 lb at 2.0 per mile
generate_random_load(pickup_date) ==
    { Load(lane[1], lane[2], pickup_date, 30000, 2000, 1000) : lane \in RunLanes }

\* the loads generated for a weekday (500 in the source)
LoadsPerDay == 2

\* the weekdays followed
MaxDays == 2

\* the batches that can be generated for a date, each load with its id
Batches(pickup_date) ==
    { Identified(s) : s \in [1..LoadsPerDay -> generate_random_load(pickup_date)] }

\* the random sources of a batch
RunDraws == [1..LoadsPerDay -> {0, 99999}]

\* a row of all_loads_data
Row(l, is_accepted) ==
    [pickup_date |-> isoformat(l.pickup_date), origin_kma |-> l.origin,
     destination_kma |-> l.destination, is_accepted |-> is_accepted]

RECURSIVE store_rows(_, _, _, _)
\* for load in loads: is_accepted = load in accepted_loads; all_loads_data.append(...)
store_rows(data, ls, accepted_list, i) ==
    IF i > Len(ls) THEN data
    ELSE store_rows(
             data (+) SetToBag({ Row(ls[i], \E j \in 1..Len(accepted_list) :
                                               accepted_list[j] = ls[i]) }),
             ls, accepted_list, i + 1)

\* one iteration of "for weekday in weekdays": the loads are generated, given
\* to process_load_offers (on the random source rs) and stored.
\* accepted_loads and last_reset_date are left as the engine of that call had
\* them when it returned.
RunDay ==
    /\ day < MaxDays
    /\ day < Len(weekdays)
    /\ \E ls \in Batches(weekdays[day + 1]), rs \in RunDraws :
          \E out \in {process_load_offers(ls, rs)} :
              /\ all_loads_data' = store_rows(all_loads_data, ls, out.accepted, 1)
              /\ accepted_loads' = out.carrier.accepted_loads
              /\ last_reset_date' = out.carrier.last_reset_date
    /\ pre' = Self
    /\ day' = day + 1
    /\ UNCHANGED <<load, draw, decision, history, batch, calls>>

RunNext == RunDay

RunSpec == Init /\ [][RunNext]_vars

(***************************************************************************)
(* The claims.  What a claim says of limits, probabilities and factors is  *)
(* written here from its own words; the Claim... operators are not used by *)
(* the model above.                                                        *)
(***************************************************************************)
Called == load # None

IsSaturdayOrSunday(d) == weekday(d) \in {5, 6}

\* the count of the offered load's own (date, lane) at the entry of the call,
\* and after it
CountAtEntry == Count(pre.accepted_loads, DateKey(load), LaneKey(load))

CountNow == Count(accepted_loads, DateKey(load), LaneKey(load))

\* every (date key, lane key) that al holds
Keys(al) == UNION { { <<dk, lk>> : lk \in DOMAIN al[dk] } : dk \in DOMAIN al }

\* C1 as stated: once the count of a (date, lane) pair with a limit has
\* reached the limit, every later offer on that pair is rejected, whatever
\* was processed in between.
C1_RejectedEverAfter ==
    [][ /\ load' # None
        /\ <<DateKey(load'), LaneKey(load')>> \in reached
        => decision' = FALSE ]_vars

\* C1 amended: once the count of a (date, lane) pair with a limit has reached
\* the limit, every later offer on that pair is rejected, whatever the draw,
\* for as long as no load of another pickup date is processed in between.
C1_RejectedUntilDateChanges ==
    [][ /\ load' # None
        /\ <<DateKey(load'), LaneKey(load')>> \in reached_today
        /\ load'.pickup_date = last_reset_date
        => decision' = FALSE ]_vars

\* a lane of limit 10 is full, the other direction has been served in between,
\* and an offer with the lowest draw is rejected
C1_Witness ==
    /\ Called
    /\ load = Plain("CA_LAX", "CA_STK", Tue2025Mar)
    /\ <<"2025-03-04", "CA_LAX-CA_STK">> \in reached_today
    /\ CountAtEntry = 10
    /\ Count(pre.accepted_loads, "2025-03-04", "CA_STK-CA_LAX") > 0
    /\ draw = 0
    /\ decision = FALSE

\* C7: capacity is counted per direction.  A call never changes the count of
\* the reverse lane on the date it does not reset; with LAX->STK at 10 for a
\* date, an STK->LAX offer of that date with fewer than 10 accepted passes the
\* capacity check (it is accepted when the draw is below 0.85); and no
\* direction ever holds more than 10.
C7_DirectionsCountedApart ==
    Called =>
        /\ load.pickup_date = pre.last_reset_date =>
              Count(accepted_loads, DateKey(load), get_lane_key(load.destination, load.origin))
                = Count(pre.accepted_loads, DateKey(load), get_lane_key(load.destination, load.origin))
        /\ ( /\ load = Plain("CA_STK", "CA_LAX", Tue2025Mar)
             /\ Count(pre.accepted_loads, "2025-03-04", "CA_LAX-CA_STK") = 10
             /\ CountAtEntry < 10
             /\ draw < 85000 )
           => decision = TRUE /\ CountNow = CountAtEntry + 1
        /\ Count(accepted_loads, "2025-03-04", "CA_LAX-CA_STK") <= 10
        /\ Count(accepted_loads, "2025-03-04", "CA_STK-CA_LAX") <= 10

\* both directions of LAX<->STK hold 10 acceptances on one date, the last one
\* made in the direction STK->LAX while LAX->STK was already full
C7_Witness ==
    /\ Called
    /\ load = Plain("CA_STK", "CA_LAX", Tue2025Mar)
    /\ decision = TRUE
    /\ Count(pre.accepted_loads, "2025-03-04", "CA_LAX-CA_STK") = 10
    /\ Count(accepted_loads, "2025-03-04", "CA_LAX-CA_STK") = 10
    /\ Count(accepted_loads, "2025-03-04", "CA_STK-CA_LAX") = 10

\* the count the capacity check of the call reads: the one at entry, or 0 when
\* the call's reset step cleared the counters
CountAfterReset == IF pre.last_reset_date = load.pickup_date THEN CountAtEntry ELSE 0

Lane(l) == <<l.origin, l.destination>>

Between(l, a, b) == {l.origin, l.destination} = {a, b}

\* the base probabilities, limits aside, as the policy table gives them
ClaimBaseProb(l) ==
    IF Between(l, "CA_LAX", "CA_STK") THEN 850
    ELSE IF Lane(l) = <<"TX_DAL", "TX_HOU">> THEN 900
    ELSE IF Lane(l) = <<"TX_HOU", "TX_DAL">> THEN 200
    ELSE IF Between(l, "NJ_ELI", "IL_CHI") THEN 500
    ELSE IF Between(l, "GA_ATL", "IL_CHI") THEN 800
    ELSE IF Between(l, "FL_LAK", "IL_CHI") THEN 850
    ELSE 1

\* 0.7 if weight > 35000, 1.0 otherwise
ClaimWeightFactor(l) == IF l.weight > 35000 THEN 7 ELSE 10

\* cost per mile taken as 0 for miles <= 0; 0.7 below 1.0, 1.3 above 2.5, else 1.0
ClaimCpmFactor(l) ==
    IF l.miles <= 0 THEN 7
    ELSE IF l.cost < l.miles THEN 7
    ELSE IF 10 * l.cost > 25 * l.miles THEN 13
    ELSE 10

ClaimFinalProb(l) == ClaimBaseProb(l) * ClaimWeightFactor(l) * ClaimCpmFactor(l)

\* C3: a load whose pickup date is a Saturday or Sunday is accepted exactly
\* when the draw is below 0.05, whatever its lane, weight, cost, miles and
\* month and whatever the counters hold.
C3_WeekendDecidedByDraw ==
    (Called /\ IsSaturdayOrSunday(load.pickup_date)) =>
        (decision = TRUE <=> draw < 5000)

\* a 40000 lb, zero-mile Saturday load on DAL->HOU, offered when the engine
\* holds counts of the Monday before, is accepted on the draw 0.04999
C3_Witness ==
    /\ Called
    /\ load = Heavy("TX_DAL", "TX_HOU", Sat2025Feb)
    /\ Count(pre.accepted_loads, "2025-02-03", "TX_DAL-TX_HOU") = 5
    /\ draw = 4999
    /\ decision = TRUE

\* C4: a call on a weekend load increments no counter, also when the load is
\* accepted, and no count of a weekend date is ever non-zero.
C4_WeekendCountsNothing ==
    /\ (Called /\ IsSaturdayOrSunday(load.pickup_date)) =>
          \A k \in Keys(accepted_loads) :
              Count(accepted_loads, k[1], k[2]) <= Count(pre.accepted_loads, k[1], k[2])
    /\ \A d \in Dates : IsSaturdayOrSunday(d) =>
          \A k \in Keys(accepted_loads) :
              k[1] = isoformat(d) => Count(accepted_loads, k[1], k[2]) = 0

\* a second Saturday load in a row is accepted and the counters stay empty
C4_Witness ==
    /\ Called
    /\ load = Plain("CA_LAX", "CA_STK", Sat2025Feb)
    /\ pre.last_reset_date = Sat2025Feb
    /\ decision = TRUE
    /\ Keys(accepted_loads) = {}

InBlackout(l) ==
    \/ Between(l, "NJ_ELI", "IL_CHI") /\ l.pickup_date.year = 2025 /\ l.pickup_date.month = 2
    \/ Between(l, "GA_ATL", "IL_CHI") /\ l.pickup_date.month \in {4, 5}

\* C5 as stated: every offer on a blackout lane in its blackout period is
\* rejected, whatever the counters and the draw.
C5_BlackoutRejectsEveryOffer ==
    (Called /\ InBlackout(load)) => decision = FALSE

\* C5 amended: every offer on a blackout lane in its blackout period whose
\* pickup date is not a Saturday or Sunday is rejected, whatever the counters
\* and the draw (a weekend offer is decided by the draw alone, as in C3).
C5_BlackoutRejectsWeekdayOffers ==
    (Called /\ InBlackout(load) /\ ~IsSaturdayOrSunday(load.pickup_date)) =>
        decision = FALSE

\* an ELI->CHI offer of Monday 3 February 2025 is rejected on the draw 0 while
\* another lane holds a count for that date
C5_Witness ==
    /\ Called
    /\ load = Plain("NJ_ELI", "IL_CHI", Mon2025Feb)
    /\ Count(pre.accepted_loads, "2025-02-03", "TX_DAL-TX_HOU") > 0
    /\ draw = 0
    /\ decision = FALSE

\* C6 as stated: every LAK<->CHI offer outside April and May is rejected; one
\* in April or May, on a non-weekend date with fewer than 10 counted and a
\* draw below the final probability, is accepted.
C6_LakSeasonEveryOffer ==
    (Called /\ Between(load, "FL_LAK", "IL_CHI")) =>
        /\ load.pickup_date.month \notin {4, 5} => decision = FALSE
        /\ ( /\ load.pickup_date.month \in {4, 5}
             /\ ~IsSaturdayOrSunday(load.pickup_date)
             /\ CountAfterReset < 10
             /\ draw < ClaimFinalProb(load) ) => decision = TRUE

\* C6 amended: every LAK<->CHI offer outside April and May whose pickup date
\* is not a Saturday or Sunday is rejected; the rest as stated.
C6_LakSeasonWeekdayOffers ==
    (Called /\ Between(load, "FL_LAK", "IL_CHI")) =>
        /\ ( /\ load.pickup_date.month \notin {4, 5}
             /\ ~IsSaturdayOrSunday(load.pickup_date) ) => decision = FALSE
        /\ ( /\ load.pickup_date.month \in {4, 5}
             /\ ~IsSaturdayOrSunday(load.pickup_date)
             /\ CountAfterReset < 10
             /\ draw < ClaimFinalProb(load) ) => decision = TRUE

\* a LAK->CHI offer of a Monday in February is rejected on the draw 0, right
\* after the engine had accepted 10 on that lane for a Monday in April
C6_Witness ==
    /\ Called
    /\ load = Plain("FL_LAK", "IL_CHI", Mon2025Feb)
    /\ Count(pre.accepted_loads, "2025-04-07", "FL_LAK-IL_CHI") = 10
    /\ draw = 0
    /\ decision = FALSE

\* the +1 a call gives a key: 1 for the offered load's own key when the load
\* is accepted on a non-weekend date, 0 otherwise
Gain(k) ==
    IF /\ k = <<DateKey(load), LaneKey(load)>>
       /\ decision = TRUE
       /\ ~IsSaturdayOrSunday(load.pickup_date)
    THEN 1 ELSE 0

\* C8: the reset step at the start of accept_load.  A pickup date other than
\* last_reset_date (None included) clears every counter and becomes
\* last_reset_date; an equal date leaves the counters and last_reset_date as
\* they were.  (Seen at the end of the call: the counts are those the reset
\* step leaves, plus the call's own increment.)
C8_ResetStep ==
    Called =>
        /\ last_reset_date = load.pickup_date
        /\ \A k \in Keys(accepted_loads) \cup Keys(pre.accepted_loads) :
              Count(accepted_loads, k[1], k[2]) =
                  (IF pre.last_reset_date # load.pickup_date
                   THEN 0
                   ELSE Count(pre.accepted_loads, k[1], k[2])) + Gain(k)

\* a load of another date arrives at an engine that holds counts, and is
\* rejected: nothing is counted any more
C8_Witness ==
    /\ Called
    /\ pre.last_reset_date = Mon2025Feb
    /\ load.pickup_date = Mon2025Apr
    /\ Count(pre.accepted_loads, "2025-02-03", "TX_DAL-TX_HOU") = 5
    /\ Count(pre.accepted_loads, "2025-02-03", "TX_HOU-TX_DAL") = 1
    /\ decision = FALSE
    /\ \A k \in Keys(accepted_loads) : Count(accepted_loads, k[1], k[2]) = 0
    /\ last_reset_date = Mon2025Apr

\* C9: an accepted non-weekend load adds 1 to the count of exactly its own
\* (pickup date, origin->destination) and changes no other count the reset
\* step left; a DAL->HOU load of 20000 lb, cost 2000, 1000 miles on a weekday,
\* offered to a fresh engine with the draw 0.5, is accepted and its count goes
\* from 0 to 1.
C9_AcceptanceCountsOnce ==
    /\ (Called /\ ~IsSaturdayOrSunday(load.pickup_date) /\ decision = TRUE) =>
          /\ CountNow = CountAfterReset + 1
          /\ \A k \in (Keys(accepted_loads) \cup Keys(pre.accepted_loads))
                        \ {<<DateKey(load), LaneKey(load)>>} :
                Count(accepted_loads, k[1], k[2]) =
                    IF pre.last_reset_date = load.pickup_date
                    THEN Count(pre.accepted_loads, k[1], k[2])
                    ELSE 0
    /\ ( /\ Called
         /\ pre = NewCarrier
         /\ load = Load("TX_DAL", "TX_HOU", Mon2025Feb, 20000, 2000, 1000)
         /\ draw = 50000 ) =>
          /\ decision = TRUE
          /\ CountAtEntry = 0
          /\ Count(accepted_loads, "2025-02-03", "TX_DAL-TX_HOU") = 1

\* the example of the claim
C9_Witness ==
    /\ Called
    /\ pre = NewCarrier
    /\ load = Load("TX_DAL", "TX_HOU", Mon2025Feb, 20000, 2000, 1000)
    /\ draw = 50000
    /\ decision = TRUE
    /\ accepted_loads = ("2025-02-03" :> ("TX_DAL-TX_HOU" :> 1))

\* the two rejections that come before the probability
SeasonalRejection(l) == InBlackout(l) \/ (Between(l, "FL_LAK", "IL_CHI") /\ l.pickup_date.month \notin {4, 5})

CapacityRejection ==
    HasLimit(load.origin, load.destination)
        /\ CountAfterReset >= MaxLoads(load.origin, load.destination)

\* C10: on the non-weekend path, with no seasonal and no capacity rejection,
\* the load is accepted exactly when draw < baseProb * weightFactor * cpmFactor,
\* weightFactor being 0.7 above 35000 lb and 1.0 up to and at 35000 lb, on
\* lanes with a policy as on the others; DAL->HOU at 2.0 per mile has the
\* threshold 0.63 at 40000 lb and 0.90 at 35000 lb.
C10_AcceptsBelowProduct ==
    (Called /\ ~IsSaturdayOrSunday(load.pickup_date)
            /\ ~SeasonalRejection(load) /\ ~CapacityRejection) =>
        /\ decision = TRUE <=> draw < ClaimFinalProb(load)
        /\ load = Load("TX_DAL", "TX_HOU", Mon2025Feb, 40000, 2000, 1000) =>
              (decision = TRUE <=> draw < 63000)
        /\ load = Load("TX_DAL", "TX_HOU", Mon2025Feb, 35000, 2000, 1000) =>
              (decision = TRUE <=> draw < 90000)

\* the 40000 lb DAL->HOU load is accepted on the draw 0.62999 with 4 counted
C10_Witness ==
    /\ Called
    /\ load = Load("TX_DAL", "TX_HOU", Mon2025Feb, 40000, 2000, 1000)
    /\ CountAfterReset = 4
    /\ draw = 62999
    /\ decision = TRUE

\* s is non-decreasing by pickup date
NonDecreasing(s) ==
    \A i \in 1..(Len(s) - 1) : toordinal(s[i].pickup_date) <= toordinal(s[i + 1].pickup_date)

\* the number of loads of the date and lane of l in the sequence s
CountIn(s, l) ==
    Cardinality({ i \in 1..Len(s) :
        s[i].pickup_date = l.pickup_date /\ Lane(s[i]) = Lane(l) })

\* the lanes with a policy and their capacity limits, as C2 lists them
ClaimHasPolicy(l) ==
    \/ Between(l, "CA_LAX", "CA_STK") \/ Between(l, "GA_ATL", "IL_CHI")
    \/ Between(l, "FL_LAK", "IL_CHI") \/ Between(l, "NJ_ELI", "IL_CHI")
    \/ Between(l, "TX_DAL", "TX_HOU")

ClaimLimit(l) ==
    IF \/ Between(l, "CA_LAX", "CA_STK")
       \/ Between(l, "GA_ATL", "IL_CHI")
       \/ Between(l, "FL_LAK", "IL_CHI") THEN 10
    ELSE IF Lane(l) = <<"TX_DAL", "TX_HOU">> THEN 5
    ELSE 1

\* C2: for a batch whose pickup dates are non-decreasing, the accepted output
\* of process_load_offers holds, for every non-weekend date and every lane
\* with a policy, at most the policy's limit of loads of that date and lane,
\* whatever the draws.
C2_AcceptedWithinLimit ==
    NonDecreasing(loads) =>
        \A i \in 1..Len(accepted) :
            (ClaimHasPolicy(accepted[i]) /\ ~IsSaturdayOrSunday(accepted[i].pickup_date)) =>
                CountIn(accepted, accepted[i]) <= ClaimLimit(accepted[i])

\* a date-ordered batch of DAL->HOU loads of one Monday then LAX->STK loads of
\* a later Tuesday: 5 of the first are accepted and a sixth is rejected on the
\* draw 0, and a LAX->STK load is accepted after that
C2_Witness ==
    /\ NonDecreasing(loads)
    /\ CountIn(accepted, Plain("TX_DAL", "TX_HOU", Mon2025Feb)) = 5
    /\ CountIn(rejected, Plain("TX_DAL", "TX_HOU", Mon2025Feb)) > 0
    /\ CountIn(accepted, Plain("CA_LAX", "CA_STK", Tue2025Mar)) > 0
    /\ Len(accepted) + Len(rejected) = Len(loads)


\* the latest whole call was one of fn
CalledFn(fn) == call # None /\ call.fn = fn

\* how many times x stands in the sequence s
Occurrences(s, x) == Cardinality({ i \in 1..Len(s) : s[i] = x })

\* the elements of out stand in out in the order they have in s
InOrderOf(out, s) ==
    \A j, k \in 1..Len(out) :
        j < k => \E a, b \in 1..Len(s) : a < b /\ s[a] = out[j] /\ s[b] = out[k]

\* C11: process_load_offers returns a partition of its input.  Every input
\* load is in exactly one of accepted and rejected, once;
\* len(accepted) + len(rejected) = len(loads); and each list keeps the loads
\* in the order of the input.
C11_Partition ==
    CalledFn("process_load_offers") =>
        /\ \A i \in 1..Len(call.loads) :
              Occurrences(result.accepted, call.loads[i])
                  + Occurrences(result.rejected, call.loads[i]) = 1
        /\ Len(result.accepted) + Len(result.rejected) = Len(call.loads)
        /\ InOrderOf(result.accepted, call.loads)
        /\ InOrderOf(result.rejected, call.loads)

\* of the five loads of the mixed list, the first and the fourth are accepted
\* and the second, third and fifth rejected
C11_Witness ==
    /\ CalledFn("process_load_offers")
    /\ call.loads = MixedList
    /\ result.accepted = <<MixedList[1], MixedList[4]>>
    /\ result.rejected = <<MixedList[2], MixedList[3], MixedList[5]>>


\* the loads of ls that go from o to d
OnLane(ls, o, d) == { i \in 1..Len(ls) : ls[i].origin = o /\ ls[i].destination = d }

\* C12: calculate_acceptance_rate(origin, destination, loads) returns
\* (accepted, total, rate) in which total is the number of loads that go from
\* origin to destination, 0 <= accepted <= total, and rate is accepted / total
\* when total > 0 and 0.0 when total is 0, for an empty list and for a list
\* without a load of the lane alike.
C12_RateTriple ==
    CalledFn("calculate_acceptance_rate") =>
        /\ result.total =
              Cardinality(OnLane(call.loads, call.origin_kma, call.destination_kma))
        /\ 0 <= result.accepted
        /\ result.accepted <= result.total
        /\ result.rate[2] > 0
        /\ IF result.total > 0
           THEN result.rate[1] * result.total = result.accepted * result.rate[2]
           ELSE result.rate[1] = 0
        /\ call.loads = <<>> => result.total = 0
        /\ call.loads = OtherList => result.total = 0

\* of the four HOU->DAL loads of the mixed list two are accepted: the call
\* returns (2, 4, 0.5)
C12_Witness ==
    /\ CalledFn("calculate_acceptance_rate")
    /\ call.origin_kma = "TX_HOU"
    /\ call.destination_kma = "TX_DAL"
    /\ call.loads = MixedList
    /\ result.accepted = 2
    /\ result.total = 4
    /\ result.rate = <<2, 4>>
    /\ \E p \in returned : p[1].loads = <<>> /\ p[2].total = 0 /\ p[2].rate = <<0, 1>>


\* C13: two calls of calculate_acceptance_rate with the same arguments and the
\* same sequence of draws return the same accepted and total counts, whatever
\* calls of process_load_offers and calculate_acceptance_rate were made before
\* or between them.
C13_SameCallSameCounts ==
    \A p, q \in returned :
        p[1] = q[1] => p[2].accepted = q[2].accepted /\ p[2].total = q[2].total

\* the call made right after a call that left HOU->DAL full for the Monday the
\* list starts with: it returns (3, 4) as it did when that Monday was new
C13_Witness ==
    /\ CalledFn("calculate_acceptance_rate")
    /\ call.origin_kma = "TX_HOU"
    /\ call.destination_kma = "TX_DAL"
    /\ call.loads = MixedList
    /\ call.draws = <<0, 0, 0, 0, 0>>
    /\ pre.last_reset_date = Mon2025Feb
    /\ Count(pre.accepted_loads, "2025-02-03", "TX_HOU-TX_DAL") = 1
    /\ result.accepted = 3
    /\ result.total = 4
    /\ Cardinality(returned) > 1


\* the factor the engine gives the cost per mile of the latest load
CpmFactorOfLoad == cpm_factor(calculate_cost_per_mile(load))

\* the draw decides the call: no weekend, no seasonal and no capacity rejection
DecidedByDraw ==
    /\ Called
    /\ ~IsSaturdayOrSunday(load.pickup_date)
    /\ ~SeasonalRejection(load)
    /\ ~CapacityRejection

\* C14: the cost-per-mile factor compares strictly.  For miles > 0, cost/miles
\* of exactly 1.0 and of exactly 2.5 give 1.0, below 1.0 (0.99) gives 0.7 and
\* above 2.5 (2.51) gives 1.3; a 20000 lb DAL->HOU load is accepted below the
\* draw 0.9 at 1.0 and at 2.5 per mile, below 0.63 at 0.99, and on every draw
\* at 2.51.
C14_CpmFactorStrict ==
    (Called /\ load.miles > 0) =>
        /\ load.cost = load.miles => CpmFactorOfLoad = 10
        /\ 2 * load.cost = 5 * load.miles => CpmFactorOfLoad = 10
        /\ load.cost < load.miles => CpmFactorOfLoad = 7
        /\ 2 * load.cost > 5 * load.miles => CpmFactorOfLoad = 13
        /\ <<load.cost, load.miles>> = <<990, 1000>> => CpmFactorOfLoad = 7
        /\ <<load.cost, load.miles>> = <<2510, 1000>> => CpmFactorOfLoad = 13
        /\ (DecidedByDraw /\ Lane(load) = <<"TX_DAL", "TX_HOU">> /\ load.weight = 20000) =>
              /\ load.cost \in {1000, 2500} => (decision = TRUE <=> draw < 90000)
              /\ load.cost = 990 => (decision = TRUE <=> draw < 63000)
              /\ load.cost = 2510 => decision = TRUE

\* a DAL->HOU load at exactly 2.5 per mile is rejected on the draw 0.9, which
\* the factor 1.3 would have accepted
C14_Witness ==
    /\ DecidedByDraw
    /\ load = Load("TX_DAL", "TX_HOU", Mon2025Feb, 20000, 2500, 1000)
    /\ draw = 90000
    /\ decision = FALSE
    /\ CpmFactorOfLoad = 10

\* C15: a load with miles <= 0 has the cost per mile 0, taken without a
\* division, and so the factor 0.7 whatever its cost; accept_load returns a
\* boolean, which is TRUE exactly when the draw is below
\* baseProb * weightFactor * 0.7 where the draw decides.
C15_NoMilesLowFactor ==
    (Called /\ load.miles <= 0) =>
        /\ calculate_cost_per_mile(load) = <<0, 1>>
        /\ CpmFactorOfLoad = 7
        /\ decision \in BOOLEAN
        /\ DecidedByDraw =>
              (decision = TRUE <=>
                  draw < ClaimBaseProb(load) * ClaimWeightFactor(load) * 7)

\* a zero-mile DAL->HOU load that costs 5000 is rejected on the draw 0.63
C15_Witness ==
    /\ DecidedByDraw
    /\ load = Load("TX_DAL", "TX_HOU", Mon2025Feb, 20000, 5000, 0)
    /\ draw = 63000
    /\ decision = FALSE


\* the lane policies as C16 lists them: the directional lanes of each, its
\* limit and its base probability
ClaimPolicies ==
    { [lanes |-> {<<"CA_LAX", "CA_STK">>, <<"CA_STK", "CA_LAX">>}, limit |-> 10, base |-> 850],
      [lanes |-> {<<"TX_DAL", "TX_HOU">>}, limit |-> 5, base |-> 900],
      [lanes |-> {<<"TX_HOU", "TX_DAL">>}, limit |-> 1, base |-> 200],
      [lanes |-> {<<"NJ_ELI", "IL_CHI">>, <<"IL_CHI", "NJ_ELI">>}, limit |-> 1, base |-> 500],
      [lanes |-> {<<"GA_ATL", "IL_CHI">>, <<"IL_CHI", "GA_ATL">>}, limit |-> 10, base |-> 800],
      [lanes |-> {<<"FL_LAK", "IL_CHI">>, <<"IL_CHI", "FL_LAK">>}, limit |-> 10, base |-> 850] }

PoliciesOf(o, d) == { p \in ClaimPolicies : <<o, d>> \in p.lanes }

\* a weekday on which no lane is out of season: Monday 7 April 2025 for
\* LAK<->CHI, Tuesday 4 March 2025 for the others
InSeason(o, d) == IF {o, d} = {"FL_LAK", "IL_CHI"} THEN Mon2025Apr ELSE Tue2025Mar

\* what the lane rules give the lane o->d in season when n loads are counted
RuleAt(o, d, n) ==
    lane_rules(SetCount(EmptyCounters, isoformat(InSeason(o, d)), get_lane_key(o, d), n),
               o, d, InSeason(o, d))

\* C16: each directional lane matches at most one lane policy, and accept_load
\* uses the policy's limit and base probability for it: with fewer loads
\* counted than the limit the load is accepted exactly when the draw is below
\* base * weightFactor * cpmFactor, and with the limit counted it is rejected.
\* A lane without a policy has the base probability 0.001 and is not rejected
\* for capacity, however many loads are counted on it.  (The second conjunct
\* reads the lane rules of all 144 lanes, once, in the initial state; the
\* third follows the calls.)
C16_PolicyTable ==
    /\ \A o, d \in KMA : Cardinality(PoliciesOf(o, d)) <= 1
    /\ ~Called =>
          \A o, d \in KMA :
              IF PoliciesOf(o, d) = {}
              THEN \A n \in {0, 1, 10, 11, 1000} :
                      ~RuleAt(o, d, n).rejected /\ RuleAt(o, d, n).base_prob = 1
              ELSE \A p \in PoliciesOf(o, d) :
                      /\ \A n \in 0..(p.limit - 1) :
                            ~RuleAt(o, d, n).rejected /\ RuleAt(o, d, n).base_prob = p.base
                      /\ \A n \in p.limit..(p.limit + 1) : RuleAt(o, d, n).rejected
    /\ (Called /\ ~IsSaturdayOrSunday(load.pickup_date) /\ ~SeasonalRejection(load)) =>
          IF PoliciesOf(load.origin, load.destination) = {}
          THEN decision = TRUE <=>
                  draw < 1 * ClaimWeightFactor(load) * ClaimCpmFactor(load)
          ELSE \A p \in PoliciesOf(load.origin, load.destination) :
                  IF CountAfterReset >= p.limit
                  THEN decision = FALSE
                  ELSE decision = TRUE <=>
                          draw < p.base * ClaimWeightFactor(load) * ClaimCpmFactor(load)

\* a load on PHO->DAL, a lane without a policy, is accepted on the draw 0.00099
\* with 10 loads already counted on it for its date
C16_Witness ==
    /\ Called
    /\ load = Plain("AZ_PHO", "TX_DAL", Date(2025, 3, 13))
    /\ CountAtEntry = 10
    /\ draw = 99
    /\ decision = TRUE
    /\ CountNow = 11


\* the keys held before or after the latest call
KeysAround == Keys(accepted_loads) \cup Keys(pre.accepted_loads)

\* C17: in a call whose pickup date equals last_reset_date no count decreases;
\* a rejection (seasonal, at capacity or by the draw) and a weekend decision
\* leave every count as it was; a count that changes is the offered load's
\* own, by the +1 of a non-weekend acceptance.  In a call of another date the
\* reset clears the counts, and nothing but that +1 is counted after it.
C17_CountsFrame ==
    Called =>
        /\ load.pickup_date = pre.last_reset_date =>
              \A k \in KeysAround :
                  /\ Count(accepted_loads, k[1], k[2]) >= Count(pre.accepted_loads, k[1], k[2])
                  /\ (decision = FALSE \/ IsSaturdayOrSunday(load.pickup_date)) =>
                        Count(accepted_loads, k[1], k[2]) = Count(pre.accepted_loads, k[1], k[2])
                  /\ Count(accepted_loads, k[1], k[2]) # Count(pre.accepted_loads, k[1], k[2]) =>
                        /\ k = <<DateKey(load), LaneKey(load)>>
                        /\ decision = TRUE
                        /\ ~IsSaturdayOrSunday(load.pickup_date)
                        /\ Count(accepted_loads, k[1], k[2])
                              = Count(pre.accepted_loads, k[1], k[2]) + 1
        /\ load.pickup_date # pre.last_reset_date =>
              \A k \in KeysAround :
                  Count(accepted_loads, k[1], k[2]) =
                      IF /\ k = <<DateKey(load), LaneKey(load)>>
                         /\ decision = TRUE
                         /\ ~IsSaturdayOrSunday(load.pickup_date)
                      THEN 1 ELSE 0

\* HOU->DAL is rejected at capacity on the lowest draw, on the date the engine
\* is at, and the counts of that date (DAL->HOU 5, HOU->DAL 1) stay
C17_Witness ==
    /\ Called
    /\ load = Plain("TX_HOU", "TX_DAL", Mon2025Feb)
    /\ pre.last_reset_date = Mon2025Feb
    /\ draw = 0
    /\ decision = FALSE
    /\ Count(pre.accepted_loads, "2025-02-03", "TX_HOU-TX_DAL") = 1
    /\ Count(pre.accepted_loads, "2025-02-03", "TX_DAL-TX_HOU") = 5
    /\ Count(accepted_loads, "2025-02-03", "TX_HOU-TX_DAL") = 1
    /\ Count(accepted_loads, "2025-02-03", "TX_DAL-TX_HOU") = 5


\* C18: the reset step runs before the weekend check.  A weekend load whose
\* pickup date differs from last_reset_date leaves every counter cleared and
\* last_reset_date at the weekend date; so the engine holds no count after a
\* weekend load, and an HOU->DAL load of the Monday before, offered next,
\* passes the capacity check again (it is accepted on a draw below 0.2).
C18_WeekendLoadResets ==
    Called =>
        /\ (IsSaturdayOrSunday(load.pickup_date) /\ pre.last_reset_date # load.pickup_date) =>
              /\ \A k \in KeysAround : Count(accepted_loads, k[1], k[2]) = 0
              /\ last_reset_date = load.pickup_date
        /\ (pre.last_reset_date # None /\ IsSaturdayOrSunday(pre.last_reset_date)) =>
              \A k \in Keys(pre.accepted_loads) : Count(pre.accepted_loads, k[1], k[2]) = 0
        /\ ( /\ pre.last_reset_date = Sat2025Feb
             /\ load = Plain("TX_HOU", "TX_DAL", Mon2025Feb)
             /\ draw < 20000 ) => decision = TRUE

\* HOU->DAL of Monday 3 February had reached its limit of 1; after a load of
\* Saturday 8 February an HOU->DAL load of that Monday finds the count at 0 and
\* gets to the draw, 0.99999, which rejects it
C18_Witness ==
    /\ Called
    /\ load = Plain("TX_HOU", "TX_DAL", Mon2025Feb)
    /\ pre.last_reset_date = Sat2025Feb
    /\ <<"2025-02-03", "TX_HOU-TX_DAL">> \in reached
    /\ CountAtEntry = 0
    /\ draw = 99999
    /\ decision = FALSE
    /\ CountNow = 0
    /\ reached_today = {}


\* C19: after any sequence of accept_load calls last_reset_date is the pickup
\* date of the latest load, and every count that is not 0 is keyed by that
\* date: counts are never held for two dates at once.  (Before the first call
\* nothing is counted.)
C19_CountsOfLatestDate ==
    /\ ~Called => Keys(accepted_loads) = {}
    /\ Called =>
          /\ last_reset_date = load.pickup_date
          /\ \A k \in Keys(accepted_loads) :
                Count(accepted_loads, k[1], k[2]) > 0 => k[1] = isoformat(load.pickup_date)
          /\ \A j, k \in Keys(accepted_loads) :
                (Count(accepted_loads, j[1], j[2]) > 0 /\ Count(accepted_loads, k[1], k[2]) > 0)
                    => j[1] = k[1]

\* the engine held the counts of Monday 3 February; a LAK->CHI load of Monday
\* 7 April is accepted and its count is the only one
C19_Witness ==
    /\ Called
    /\ load = Plain("FL_LAK", "IL_CHI", Mon2025Apr)
    /\ pre.last_reset_date = Mon2025Feb
    /\ Count(pre.accepted_loads, "2025-02-03", "TX_DAL-TX_HOU") = 5
    /\ decision = TRUE
    /\ last_reset_date = Mon2025Apr
    /\ accepted_loads = ("2025-04-07" :> ("FL_LAK-IL_CHI" :> 1))


\* what capacity and the draw give a load of base probability p and limit n
ByCapacityAndDraw(p, n) ==
    IF CountAfterReset >= n
    THEN decision = FALSE
    ELSE decision = TRUE <=>
            draw < p * ClaimWeightFactor(load) * ClaimCpmFactor(load)

\* C20: on a non-weekend date, an ELI<->CHI offer is rejected for its season
\* in February 2025 only: in February of another year, as in any other month,
\* it is decided by capacity (1) and the draw with the base probability 0.5.
\* An ATL<->CHI offer is rejected in April and May of every year and decided
\* by capacity (10) and the draw (0.8) otherwise; a LAK<->CHI offer is decided
\* by capacity (10) and the draw (0.85) in April and May of every year and
\* rejected otherwise.
C20_SeasonsByYearAndMonth ==
    (Called /\ ~IsSaturdayOrSunday(load.pickup_date)) =>
        /\ Between(load, "NJ_ELI", "IL_CHI") =>
              IF load.pickup_date.year = 2025 /\ load.pickup_date.month = 2
              THEN decision = FALSE
              ELSE ByCapacityAndDraw(500, 1)
        /\ (Between(load, "NJ_ELI", "IL_CHI") /\ load.pickup_date \in {Mon2024Feb, Mon2026Feb}
                /\ CountAfterReset = 0) =>
              (decision = TRUE <=> draw < 50000)
        /\ Between(load, "GA_ATL", "IL_CHI") =>
              IF load.pickup_date.month \in {4, 5}
              THEN decision = FALSE
              ELSE ByCapacityAndDraw(800, 10)
        /\ Between(load, "FL_LAK", "IL_CHI") =>
              IF load.pickup_date.month \in {4, 5}
              THEN ByCapacityAndDraw(850, 10)
              ELSE decision = FALSE

\* a CHI->ELI offer of Monday 5 February 2024 is accepted on the draw 0.49999,
\* right after LAK->CHI had taken 10 loads of Monday 6 April 2026
C20_Witness ==
    /\ Called
    /\ load = Plain("IL_CHI", "NJ_ELI", Mon2024Feb)
    /\ pre.last_reset_date = Mon2026Apr
    /\ Count(pre.accepted_loads, "2026-04-06", "FL_LAK-IL_CHI") = 10
    /\ draw = 49999
    /\ decision = TRUE


\* the lanes C21 names, in their season
C21Lane(l) ==
    \/ Between(l, "CA_LAX", "CA_STK")
    \/ Lane(l) = <<"TX_DAL", "TX_HOU">>
    \/ Between(l, "GA_ATL", "IL_CHI") /\ l.pickup_date.month \notin {4, 5}
    \/ Between(l, "FL_LAK", "IL_CHI") /\ l.pickup_date.month \in {4, 5}

\* C21: the final probability is not clamped to [0, 1].  For a non-weekend
\* load on LAX<->STK, DAL->HOU, ATL<->CHI outside April and May or LAK<->CHI
\* in April and May, of at most 35000 lb and more than 2.5 per mile,
\* baseProb * 1.3 exceeds 1; with capacity left the load is accepted on every
\* draw and counted, and with the limit counted it is rejected.
C21_AcceptedOnEveryDraw ==
    ( /\ Called
      /\ ~IsSaturdayOrSunday(load.pickup_date)
      /\ C21Lane(load)
      /\ load.weight <= 35000
      /\ load.miles > 0
      /\ 10 * load.cost > 25 * load.miles ) =>
        /\ ClaimBaseProb(load) * 10 * 13 > 100000
        /\ IF CountAfterReset < ClaimLimit(load)
           THEN decision = TRUE /\ CountNow = CountAfterReset + 1
           ELSE decision = FALSE /\ CountNow = CountAfterReset

\* the tenth LAX->STK load of its date, of 35000 lb at 2.51 per mile, is
\* accepted on the draw 0.99999
C21_Witness ==
    /\ Called
    /\ load = Costly("CA_LAX", "CA_STK", Date(2025, 3, 3), 35000)
    /\ pre.last_reset_date = Date(2025, 3, 3)
    /\ CountAtEntry = 9
    /\ draw = 99999
    /\ decision = TRUE
    /\ CountNow = 10


\* loads of equal pickup date are contiguous in s
DatesContiguous(s) ==
    \A i, j, k \in 1..Len(s) :
        (i < j /\ j < k /\ s[i].pickup_date = s[k].pickup_date)
            => s[j].pickup_date = s[i].pickup_date

\* the pickup date of the last load of s that goes from o to d, None if none
LastDateOnLane(s, o, d) ==
    IF OnLane(s, o, d) = {} THEN None
    ELSE s[CHOOSE i \in OnLane(s, o, d) : \A j \in OnLane(s, o, d) : j <= i].pickup_date

\* C22: calculate_acceptance_rate gives its engine the loads of the requested
\* lane only (the engine is at the date of the last of them, holds keys of
\* that lane only, and total counts them); when every load has a fixed draw
\* and loads of equal pickup date are contiguous in the list, its accepted
\* count is the number of loads of the lane in the accepted output of
\* process_load_offers on the same list.
C22_RateAgreesWithBatch ==
    \A lane \in PairLanes :
        /\ rate_runs[lane].total = Cardinality(OnLane(loads, lane[1], lane[2]))
        /\ rate_runs[lane].carrier.last_reset_date = LastDateOnLane(loads, lane[1], lane[2])
        /\ \A k \in Keys(rate_runs[lane].carrier.accepted_loads) :
              k[2] = lane[1] \o "-" \o lane[2]
        /\ DatesContiguous(loads) =>
              rate_runs[lane].accepted = Cardinality(OnLane(accepted, lane[1], lane[2]))

\* Monday's HOU->DAL, DAL->HOU and HOU->DAL again, then another lane on
\* Tuesday, then a Saturday HOU->DAL: of the three HOU->DAL loads both
\* functions accept two, the second being rejected at capacity
C22_Witness ==
    /\ loads = << Plain("TX_HOU", "TX_DAL", Mon2025Feb), Plain("TX_DAL", "TX_HOU", Mon2025Feb),
                  Plain("TX_HOU", "TX_DAL", Mon2025Feb), Plain("AZ_PHO", "TX_DAL", Tue2025Mar),
                  Plain("TX_HOU", "TX_DAL", Sat2025Feb) >>
    /\ DatesContiguous(loads)
    /\ rejected = << Plain("TX_HOU", "TX_DAL", Mon2025Feb) >>
    /\ rate_runs[<<"TX_HOU", "TX_DAL">>].total = 3
    /\ rate_runs[<<"TX_HOU", "TX_DAL">>].accepted = 2
    /\ Cardinality(OnLane(accepted, "TX_HOU", "TX_DAL")) = 2


\* the row of all_loads_data of a load of date d on a lane
RowOf(d, lane, is_accepted) ==
    [pickup_date |-> isoformat(d), origin_kma |-> lane[1],
     destination_kma |-> lane[2], is_accepted |-> is_accepted]

\* how many rows of the produced data, of date d and lane, are marked accepted
AcceptedRows(d, lane) == CopiesIn(RowOf(d, lane, TRUE), all_loads_data)

\* how many rows of the produced data have the date d
RowsOfDate(d) ==
    LET rows == { r \in BagToSet(all_loads_data) : r.pickup_date = isoformat(d) }
        RECURSIVE Sum(_)
        Sum(S) == IF S = {} THEN 0
                  ELSE LET r == CHOOSE x \in S : TRUE
                       IN  CopiesIn(r, all_loads_data) + Sum(S \ {r})
    IN  Sum(rows)

\* the lane of a row, and a lane as the load that ClaimHasPolicy and
\* ClaimLimit read
RowLane(r) == <<r.origin_kma, r.destination_kma>>

OfLane(lane) == [origin |-> lane[1], destination |-> lane[2]]

\* the lanes on which the produced data has a row of date d
LanesOfDate(d) ==
    { RowLane(r) : r \in { x \in BagToSet(all_loads_data) : x.pickup_date = isoformat(d) } }

\* the dates of the batches: each Monday to Friday, later than the one before,
\* from start_date to end_date
BatchDatesAreWeekdays ==
    \A i \in 1..Len(weekdays) :
        /\ ~IsSaturdayOrSunday(weekdays[i])
        /\ toordinal(start_date) <= toordinal(weekdays[i])
        /\ toordinal(weekdays[i]) <= toordinal(end_date)
        /\ i > 1 => toordinal(weekdays[i - 1]) < toordinal(weekdays[i])

\* the produced data holds one batch for each weekday gone through, and
\* nothing else
OneBatchPerWeekday ==
    /\ \A r \in BagToSet(all_loads_data) :
           \E i \in 1..day : r.pickup_date = isoformat(weekdays[i])
    /\ \A i \in 1..day : RowsOfDate(weekdays[i]) = LoadsPerDay

\* the engine of the last batch, when it returned, had the batch's date for its
\* last reset, held no other date and no lane that the batch has not, and
\* counted on every lane of the batch exactly the rows marked accepted: no
\* count was lost to a reset in the middle of the batch and no load was
\* accepted on the weekend path, which does not count
NoWeekendPathNoMidBatchReset ==
    day > 0 =>
        /\ last_reset_date = weekdays[day]
        /\ DOMAIN accepted_loads \subseteq {isoformat(weekdays[day])}
        /\ \A k \in DOMAIN accepted_loads :
               DOMAIN accepted_loads[k] \subseteq
                   { get_lane_key(lane[1], lane[2]) : lane \in LanesOfDate(weekdays[day]) }
        /\ \A lane \in LanesOfDate(weekdays[day]) :
               Count(accepted_loads, isoformat(weekdays[day]), get_lane_key(lane[1], lane[2]))
                   = AcceptedRows(weekdays[day], lane)

\* C23: run_simulation offers one batch per weekday, each of a single Monday to
\* Friday pickup date and processed by its own fresh engine; the weekend path
\* and a reset in the middle of a batch never occur, and for every date and
\* every lane with a policy the rows marked accepted in the produced data are
\* at most the lane's capacity limit.
C23_ProducedDataWithinLimits ==
    /\ BatchDatesAreWeekdays
    /\ OneBatchPerWeekday
    /\ NoWeekendPathNoMidBatchReset
    /\ \A i \in 1..day : \A lane \in LanesOfDate(weekdays[i]) :
           ClaimHasPolicy(OfLane(lane)) =>
               AcceptedRows(weekdays[i], lane) <= ClaimLimit(OfLane(lane))

\* two batches have been processed; on each of the two dates (a Monday and the
\* Tuesday after it) a HOU->DAL load is marked accepted, and on the first a
\* second HOU->DAL load, offered at the limit, is marked rejected
C23_Witness ==
    /\ day = 2
    /\ weekdays[1] = Date(2025, 2, 3) /\ weekdays[2] = Date(2025, 2, 4)
    /\ AcceptedRows(weekdays[1], <<"TX_HOU", "TX_DAL">>) = 1
    /\ CopiesIn(RowOf(weekdays[1], <<"TX_HOU", "TX_DAL">>, FALSE), all_loads_data) = 1
    /\ AcceptedRows(weekdays[2], <<"TX_HOU", "TX_DAL">>) = 1
    /\ Count(accepted_loads, isoformat(weekdays[2]), get_lane_key("TX_HOU", "TX_DAL")) = 1

====
